---- MODULE Spec2Model ----
(***************************************************************************)
(* Model of gh-parametric-toolkit: the facade panelizer, the adaptive      *)
(* fenestration generator, the tower twister and the host runner.          *)
(*                                                                         *)
(* Every generator is a synchronous function, so each call is one action.  *)
(* A call leaves behind: op (which function ran), args (its arguments),    *)
(* result (what it returned or raised, and the log of the geometry-kernel  *)
(* calls it made, in order).  base_curve and opening_shape are the         *)
(* caller-owned geometry objects that are passed to the generators by      *)
(* reference and live on between calls.                                    *)
(*                                                                         *)
(* Python floats are modelled as IEEE-754 binary64 values with rounding to  *)
(* nearest, ties to even.  The parameters and points that the geometry     *)
(* kernel computes on a surface are exact rationals in lowest terms.       *)
(***************************************************************************)
EXTENDS Integers, Sequences, FiniteSets, TLC

VARIABLES op, args, result, base_curve, opening_shape

vars == <<op, args, result, base_curve, opening_shape>>

\* Python's None.
None == [py |-> "None"]

----------------------------------------------------------------------------
\* Bounds of the model.

\* largest u_count / v_count handed to generate_panel_ids
MaxCount == 11
\* largest u_count / v_count handed to panelize_surface
MaxGrid == 3
\* largest number of faces of a Brep
MaxFaces == 2
\* largest floor_count handed to twist_tower
MaxFloors == 4
\* longest panels / ids / data_values sequence
MaxPanels == 2
\* largest num_categories
MaxCategories == 11
\* largest q of a normalized value p / q handed to the pure functions
MaxDen == 4

----------------------------------------------------------------------------
\* Exact rationals <<num, den>> with den > 0, in lowest terms.

Abs(n) == IF n < 0 THEN -n ELSE n

RECURSIVE GCD(_, _)
GCD(a, b) == IF b = 0 THEN a ELSE GCD(b, a % b)

Rat(n, d) ==
    LET s == IF d < 0 THEN -1 ELSE 1
        g == GCD(Abs(n), Abs(d))
    IN  <<(s * n) \div g, (s * d) \div g>>

RAdd(a, b) == Rat(a[1] * b[2] + b[1] * a[2], a[2] * b[2])
RSub(a, b) == Rat(a[1] * b[2] - b[1] * a[2], a[2] * b[2])
RMul(a, b) == Rat(a[1] * b[1], a[2] * b[2])
RInt(k) == <<k, 1>>

Min2(a, b) == IF a <= b THEN a ELSE b

----------------------------------------------------------------------------
\* Python floats: IEEE-754 binary64, round to nearest, ties to even.
\* A float is [neg, m, e] and stands for (-1)^neg * m * 2^e, where m is a
\* natural number of exactly Precision bits (or zero, with e = 0), written as
\* its digits in base Base, least significant first, without leading zeros.
\* The exponent is not bounded (no overflow, no subnormal numbers) and the
\* sign of zero is not kept (0.0 == -0.0).
Precision == 53
LimbBits == 15
Base == 2^LimbBits

RECURSIVE BitLen(_)
BitLen(n) == IF n = 0 THEN 0 ELSE 1 + BitLen(n \div 2)

\* Natural numbers of any size.
RECURSIVE BNTrim(_)
BNTrim(a) ==
    IF Len(a) = 0 THEN <<>>
    ELSE IF a[Len(a)] = 0 THEN BNTrim(SubSeq(a, 1, Len(a) - 1))
    ELSE a

RECURSIVE BNFromInt(_)
BNFromInt(k) == IF k = 0 THEN <<>> ELSE <<k % Base>> \o BNFromInt(k \div Base)

RECURSIVE BNToInt(_)
BNToInt(a) == IF Len(a) = 0 THEN 0 ELSE a[1] + Base * BNToInt(Tail(a))

BNLimb(a, i) == IF i <= Len(a) THEN a[i] ELSE 0

RECURSIVE BNAddFrom(_, _, _, _)
BNAddFrom(a, b, i, carry) ==
    IF i > Len(a) /\ i > Len(b)
    THEN (IF carry = 0 THEN <<>> ELSE <<carry>>)
    ELSE LET s == BNLimb(a, i) + BNLimb(b, i) + carry
         IN  <<s % Base>> \o BNAddFrom(a, b, i + 1, s \div Base)
BNAdd(a, b) == BNAddFrom(a, b, 1, 0)

\* a - b, for a >= b
RECURSIVE BNSubFrom(_, _, _, _)
BNSubFrom(a, b, i, borrow) ==
    IF i > Len(a) THEN <<>>
    ELSE LET s == a[i] - BNLimb(b, i) - borrow
         IN  IF s < 0 THEN <<s + Base>> \o BNSubFrom(a, b, i + 1, 1)
             ELSE <<s>> \o BNSubFrom(a, b, i + 1, 0)
BNSub(a, b) == BNTrim(BNSubFrom(a, b, 1, 0))

RECURSIVE BNLessFrom(_, _, _)
BNLessFrom(a, b, i) ==
    IF i = 0 THEN FALSE
    ELSE IF a[i] # b[i] THEN a[i] < b[i]
    ELSE BNLessFrom(a, b, i - 1)
BNLess(a, b) == IF Len(a) # Len(b) THEN Len(a) < Len(b) ELSE BNLessFrom(a, b, Len(a))

\* a * k, for 0 <= k < Base
RECURSIVE BNMulSmallFrom(_, _, _, _)
BNMulSmallFrom(a, k, i, carry) ==
    IF i > Len(a) THEN (IF carry = 0 THEN <<>> ELSE <<carry>>)
    ELSE LET s == a[i] * k + carry
         IN  <<s % Base>> \o BNMulSmallFrom(a, k, i + 1, s \div Base)
BNMulSmall(a, k) == BNTrim(BNMulSmallFrom(a, k, 1, 0))

\* a * Base^n
BNShiftLimbs(a, n) == IF Len(a) = 0 THEN <<>> ELSE [i \in 1..n |-> 0] \o a

RECURSIVE BNMul(_, _)
BNMul(a, b) ==
    IF Len(b) = 0 THEN <<>>
    ELSE BNAdd(BNMulSmall(a, b[1]), BNShiftLimbs(BNMul(a, Tail(b)), 1))

\* a * 2^k
BNShl(a, k) == BNShiftLimbs(BNMulSmall(a, 2^(k % LimbBits)), k \div LimbBits)

\* a \div k, for 0 < k < Base, from limb i down
RECURSIVE BNDivSmallFrom(_, _, _, _)
BNDivSmallFrom(a, k, i, rem) ==
    IF i = 0 THEN <<>>
    ELSE LET cur == rem * Base + a[i]
         IN  BNDivSmallFrom(a, k, i - 1, cur % k) \o <<cur \div k>>

\* a \div 2^k
BNShr(a, k) ==
    IF k \div LimbBits >= Len(a) THEN <<>>
    ELSE LET high == SubSeq(a, (k \div LimbBits) + 1, Len(a))
         IN  BNTrim(BNDivSmallFrom(high, 2^(k % LimbBits), Len(high), 0))

BNBitLen(a) == IF Len(a) = 0 THEN 0 ELSE LimbBits * (Len(a) - 1) + BitLen(a[Len(a)])

\* The largest d with d * b <= r, counting down from an estimate that is not
\* below it.
RECURSIVE BNDigitFrom(_, _, _)
BNDigitFrom(r, b, d) ==
    IF BNLess(r, BNMulSmall(b, d)) THEN BNDigitFrom(r, b, d - 1) ELSE d

\* The largest d with d * b <= r, for r < Base * b and a b whose highest limb
\* is at least Base \div 2: the two highest limbs of r divided by the highest
\* limb of b overestimate it by at most 2.
BNDigit(r, b) ==
    LET n == Len(b)
        top == BNLimb(r, n + 1) * Base + BNLimb(r, n)
        estimate == top \div b[n]
    IN  BNDigitFrom(r, b, IF estimate < Base THEN estimate ELSE Base - 1)

\* Long division, one limb of a at a time from limb i down: [q, r] with
\* a = q * b + r and r < b, for a b whose highest limb is at least Base \div 2.
\* r2 is the remainder so far with limb i of a brought down, d the next digit
\* of the quotient.
RECURSIVE BNDivModFrom(_, _, _, _, _)
RECURSIVE BNDivModBring(_, _, _, _, _)
RECURSIVE BNDivModDigit(_, _, _, _, _, _)
BNDivModDigit(a, b, i, q, r2, d) ==
    BNDivModFrom(a, b, i - 1, <<d>> \o q, BNSub(r2, BNMulSmall(b, d)))
BNDivModBring(a, b, i, q, r2) == BNDivModDigit(a, b, i, q, r2, BNDigit(r2, b))
BNDivModFrom(a, b, i, q, r) ==
    IF i = 0 THEN [q |-> BNTrim(q), r |-> r]
    ELSE BNDivModBring(a, b, i, q, BNTrim(<<a[i]>> \o r))

\* [q, r] with a * 2^shift = q * (b * 2^shift) + r and r < b * 2^shift: the
\* quotient of a by b, and a remainder that is zero exactly when b divides a.
BNDivModScaled(as, bs) == BNDivModFrom(as, bs, Len(as), <<>>, <<>>)
BNDivModShift(a, b, shift) == BNDivModScaled(BNShl(a, shift), BNShl(b, shift))
\* a and b are first scaled by the power of two that fills the highest limb of b.
BNDivMod(a, b) == BNDivModShift(a, b, LimbBits * Len(b) - BNBitLen(b))

DZero == [neg |-> FALSE, m |-> <<>>, e |-> 0]
DIsZero(a) == Len(a.m) = 0

\* The float nearest to (-1)^neg * m * 2^e, ties to the even significand.
\* q: the significand once the k bits beyond Precision are dropped; r: the
\* bits dropped; half: half a unit of the last place kept.
RoundCarry(neg, e, q) ==
    IF BNBitLen(q) > Precision
    THEN [neg |-> neg, m |-> BNShr(q, 1), e |-> e + 1]
    ELSE [neg |-> neg, m |-> q, e |-> e]
RoundUp(neg, e, q, r, half) ==
    RoundCarry(neg, e, IF BNLess(half, r) \/ (r = half /\ q[1] % 2 = 1)
                       THEN BNAdd(q, <<1>>) ELSE q)
RoundQuotient(neg, m, e, k, q) ==
    RoundUp(neg, e + k, q, BNSub(m, BNShl(q, k)), BNShl(<<1>>, k - 1))
RoundBits(neg, m, e, len) ==
    IF len <= Precision
    THEN [neg |-> neg, m |-> BNShl(m, Precision - len), e |-> e - (Precision - len)]
    ELSE RoundQuotient(neg, m, e, len - Precision, BNShr(m, len - Precision))
RoundToDouble(neg, m, e) == IF Len(m) = 0 THEN DZero ELSE RoundBits(neg, m, e, BNBitLen(m))

\* float(k) of a Python int
DFromInt(k) == RoundToDouble(k < 0, BNFromInt(Abs(k)), 0)

DNeg(a) == IF DIsZero(a) THEN a ELSE [a EXCEPT !.neg = ~@]

\* a + b for significands am, bm brought to the same exponent e: the sum of
\* the magnitudes for equal signs, else their difference with the sign of the
\* larger.
DAddAligned(an, am, bn, bm, e) ==
    RoundToDouble(IF an = bn \/ BNLess(bm, am) THEN an ELSE bn,
                  IF an = bn THEN BNAdd(am, bm)
                  ELSE IF BNLess(bm, am) THEN BNSub(am, bm) ELSE BNSub(bm, am),
                  e)
DAddAt(a, b, e) == DAddAligned(a.neg, BNShl(a.m, a.e - e), b.neg, BNShl(b.m, b.e - e), e)

\* a + b
DAdd(a, b) ==
    IF DIsZero(a) THEN b
    ELSE IF DIsZero(b) THEN a
    ELSE DAddAt(a, b, Min2(a.e, b.e))

\* a - b
DSub(a, b) == DAdd(a, DNeg(b))

\* a * b
DMul(a, b) ==
    IF DIsZero(a) \/ DIsZero(b) THEN DZero
    ELSE RoundToDouble(a.neg # b.neg, BNMul(a.m, b.m), a.e + b.e)

\* The quotient d.q with one more bit that tells whether anything is left over.
DDivRound(neg, d, e) ==
    RoundToDouble(neg, BNAdd(BNMulSmall(d.q, 2), IF Len(d.r) = 0 THEN <<>> ELSE <<1>>), e)

\* a / b, for b # 0: the quotient to at least Precision + 3 bits.
DDiv(a, b) ==
    IF DIsZero(a) THEN DZero
    ELSE DDivRound(a.neg # b.neg, BNDivMod(BNShl(a.m, Precision + 3), b.m),
                   a.e - b.e - (Precision + 3) - 1)

\* |a| < |b|
DMagLess(a, b) ==
    IF DIsZero(b) THEN FALSE
    ELSE IF DIsZero(a) THEN TRUE
    ELSE IF a.e # b.e THEN a.e < b.e
    ELSE BNLess(a.m, b.m)

\* a < b
DLess(a, b) ==
    IF a.neg /\ b.neg THEN DMagLess(b, a)
    ELSE IF a.neg THEN TRUE
    ELSE IF b.neg THEN FALSE
    ELSE DMagLess(a, b)

\* a <= b
DLeq(a, b) == a = b \/ DLess(a, b)

\* int(a): truncation toward zero
DTrunc(a) == BNToInt(IF a.e >= 0 THEN BNShl(a.m, a.e) ELSE BNShr(a.m, -(a.e)))
DInt(a) == IF a.neg THEN -DTrunc(a) ELSE DTrunc(a)

\* The float p / q of two Python ints.
D(p, q) == DDiv(DFromInt(p), DFromInt(q))

----------------------------------------------------------------------------
\* What a call leaves behind.

\* status: "ok" or the Python exception class raised; value: the returned
\* value (None when raised); msg, at: the exception's message and the element
\* it names; log: the geometry-kernel calls made, in order.
Returned(value, log) ==
    [status |-> "ok", value |-> value, msg |-> "", at |-> <<>>, log |-> log]
Raised(exc, msg, at, log) ==
    [status |-> exc, value |-> None, msg |-> msg, at |-> at, log |-> log]

----------------------------------------------------------------------------
\* tools/facade_panelizer/src/panelizer.py

\* f"{n:02d}": decimal, zero-padded to at least two characters.
Format02d(n) ==
    IF n < 0 THEN "-" \o ToString(-n)
    ELSE IF n < 10 THEN "0" \o ToString(n) ELSE ToString(n)

\* f"{prefix}-{u:02d}-{v:02d}"
FormatId(prefix, u, v) == prefix \o "-" \o Format02d(u) \o "-" \o Format02d(v)

\* for u in range(1, u_count + 1): ids.append(f"{prefix}-{u:02d}-{v:02d}")
\* The ids one pass of the inner loop appends.
IdsInnerU(v, u_count, prefix) == [u \in 1..u_count |-> FormatId(prefix, u, v)]

\* for v in range(1, v_count + 1): <the loop over u>
RECURSIVE IdsLoop(_, _, _, _, _)
IdsLoop(ids, v, u_count, v_count, prefix) ==
    IF v > v_count THEN ids
    ELSE IdsLoop(ids \o IdsInnerU(v, u_count, prefix), v + 1, u_count, v_count, prefix)

\* The same loops nested the other way round (U outer, V inner).
IdsInnerV(u, v_count, prefix) == [v \in 1..v_count |-> FormatId(prefix, u, v)]

RECURSIVE IdsLoopUOuter(_, _, _, _, _)
IdsLoopUOuter(ids, u, u_count, v_count, prefix) ==
    IF u > u_count THEN ids
    ELSE IdsLoopUOuter(ids \o IdsInnerV(u, v_count, prefix), u + 1, u_count, v_count, prefix)

generate_panel_ids_UOuter(u_count, v_count, prefix) ==
    IF u_count <= 0 \/ v_count <= 0
    THEN Raised("ValueError", "U and V counts must be > 0.", <<>>, <<>>)
    ELSE Returned(IdsLoopUOuter(<<>>, 1, u_count, v_count, prefix), <<>>)

generate_panel_ids(u_count, v_count, prefix) ==
    IF u_count <= 0 \/ v_count <= 0
    THEN Raised("ValueError", "U and V counts must be > 0.", <<>>, <<>>)
    ELSE Returned(IdsLoop(<<>>, 1, u_count, v_count, prefix), <<>>)

\* Geometry values the panelizer sees.
Surface(name, u_dom, v_dom) ==
    [py |-> "Surface", name |-> name, u_dom |-> u_dom, v_dom |-> v_dom]
BrepFace(srf) == [py |-> "BrepFace", underlying |-> srf]
Brep(faces) == [py |-> "Brep", faces |-> faces]

\* Interval.ParameterAt(t) of the interval dom = <<t0, t1>>: (1 - t)*t0 + t*t1.
ParameterAt(dom, t) ==
    RAdd(RMul(RSub(RInt(1), t), RInt(dom[1])), RMul(t, RInt(dom[2])))

\* srf.PointAt(u, v): the point of srf at parameters (u, v).
PointAt(srf, u, v) == [on |-> srf.name, u |-> u, v |-> v]

\* rg.NurbsSurface.CreateFromCorners(p00, p10, p11, p01); the kernel returns
\* None for the cells in fails.
CreateFromCorners(p00, p10, p11, p01, cell, fails) ==
    IF cell \in fails THEN None
    ELSE [py |-> "NurbsSurface", corners |-> <<p00, p10, p11, p01>>]

\* The parameters with i divided by count + 1: the far end of the domain is
\* never reached.
ParamsOpenEnd(dom, count) ==
    [k \in 1..(count + 1) |-> ParameterAt(dom, Rat(k - 1, count + 1))]

\* u_params = [u_dom.ParameterAt(i / float(u_count)) for i in range(u_count + 1)]
Params(dom, count) == [k \in 1..(count + 1) |-> ParameterAt(dom, Rat(k - 1, count))]

\* for j in range(v_count): for i in range(u_count): ... panels.append(patch)
RECURSIVE PanelLoop(_, _, _, _, _)
PanelLoop(panels, log, j, i, c) ==
    IF j >= c.v_count THEN [status |-> "ok", panels |-> panels, log |-> log, at |-> <<>>]
    ELSE IF i >= c.u_count THEN PanelLoop(panels, log, j + 1, 0, c)
    ELSE
      LET u0 == c.u_params[i + 1]
          u1 == c.u_params[i + 2]
          v0 == c.v_params[j + 1]
          v1 == c.v_params[j + 2]
          p00 == PointAt(c.srf, u0, v0)
          p10 == PointAt(c.srf, u1, v0)
          p11 == PointAt(c.srf, u1, v1)
          p01 == PointAt(c.srf, u0, v1)
          patch == CreateFromCorners(p00, p10, p11, p01, <<i, j>>, c.fails)
          log2 == log \o <<"PointAt", "PointAt", "PointAt", "PointAt", "CreateFromCorners">>
      IN  IF patch = None
          THEN [status |-> "RuntimeError", panels |-> panels, log |-> log2,
                at |-> <<i + 1, j + 1>>]
          ELSE PanelLoop(Append(panels, patch), log2, j, i + 1, c)

\* fails: the grid cells <<i, j>> (0-based) whose patch the kernel cannot build.
panelize_surface(surface_input, u_count, v_count, prefix, fails) ==
    IF surface_input = None
    THEN Raised("ValueError", "Surface input is None.", <<>>, <<>>)
    ELSE IF u_count <= 0 \/ v_count <= 0
    THEN Raised("ValueError", "U and V counts must be > 0.", <<>>, <<>>)
    ELSE IF surface_input.py = "Brep" /\ Len(surface_input.faces) = 0
    THEN Raised("ValueError", "Brep has no faces.", <<>>, <<>>)
    ELSE IF surface_input.py \notin {"Surface", "BrepFace", "Brep"}
    THEN Raised("TypeError", "Unsupported type for surface_input", <<>>, <<>>)
    ELSE
      LET srf == IF surface_input.py = "Surface" THEN surface_input
                 ELSE IF surface_input.py = "BrepFace" THEN surface_input.underlying
                 ELSE surface_input.faces[1].underlying
          log0 == (IF surface_input.py = "Surface" THEN <<>> ELSE <<"UnderlyingSurface">>)
                  \o <<"Domain", "Domain">>
                  \o [k \in 1..(u_count + 1) |-> "ParameterAt"]
                  \o [k \in 1..(v_count + 1) |-> "ParameterAt"]
          ids == generate_panel_ids(u_count, v_count, prefix)
          c == [srf |-> srf, u_count |-> u_count, v_count |-> v_count,
                u_params |-> Params(srf.u_dom, u_count),
                v_params |-> Params(srf.v_dom, v_count), fails |-> fails]
          r == PanelLoop(<<>>, log0, 0, 0, c)
      IN  IF r.status = "ok" THEN Returned(<<r.panels, ids.value>>, r.log)
          ELSE Raised("RuntimeError", "Failed to create panel", r.at, r.log)

----------------------------------------------------------------------------
\* Curves are objects handed around by reference.  A heap is a sequence of
\* curve objects and a reference is an index into it; xf is the sequence of
\* transforms that have been applied to the object in place.

Curve(name, closed, center, area) ==
    [py |-> "Curve", name |-> name, closed |-> closed, center |-> center,
     area |-> area, xf |-> <<>>]

\* base_curve.DuplicateCurve() with the copy left out: the "duplicate" is the
\* very same object.
DuplicateCurveAlias(heap, ref) == [heap |-> heap, ref |-> ref]

\* base_curve.DuplicateCurve(): a fresh object with the same state.
DuplicateCurve(heap, ref) == [heap |-> Append(heap, heap[ref]), ref |-> Len(heap) + 1]

\* opening_shape.Duplicate(): a fresh object with the same state.
Duplicate(heap, ref) == [heap |-> Append(heap, heap[ref]), ref |-> Len(heap) + 1]

\* curve.Transform(t): transforms the object in place.
Transform(heap, ref, t) == [heap EXCEPT ![ref].xf = Append(@, t)]

----------------------------------------------------------------------------
\* tools/src/adaptive_fenestration.py

\* Python values whose type the code's behaviour depends on.
PyFloat(x) == [py |-> "float", x |-> x]
PyIntV(k) == [py |-> "int", x |-> DFromInt(k)]
PyList(s) == [py |-> "list", items |-> s]
PyTuple(s) == [py |-> "tuple", items |-> s]

RECURSIVE SeqMin(_)
SeqMin(s) == IF Len(s) = 1 THEN s[1] ELSE Min2(s[1], SeqMin(Tail(s)))
RECURSIVE SeqMax(_)
SeqMax(s) == IF Len(s) = 1 THEN s[1]
             ELSE LET m == SeqMax(Tail(s)) IN IF s[1] >= m THEN s[1] ELSE m

\* data_values: a sequence of integers.
normalize_data(data_values) ==
    IF Len(data_values) = 0
    THEN Raised("ValueError", "min() arg is an empty sequence", <<>>, <<>>)
    ELSE
      LET min_val == SeqMin(data_values)
          max_val == SeqMax(data_values)
          n == Len(data_values)
      IN  IF max_val = min_val
          THEN Returned(PyTuple(<<PyList([k \in 1..n |-> PyFloat(D(1, 2))]),
                                  PyList([k \in 1..n |-> PyIntV(5)])>>), <<>>)
          ELSE Returned(PyList([k \in 1..n |->
                   PyFloat(D(data_values[k] - min_val, max_val - min_val))]),
                   <<>>)

\* The category without the clamp to the last bin.
CategoryUnclamped(norm, num_categories) == DInt(DMul(norm, DFromInt(num_categories)))

\* category = min(int(norm * num_categories), num_categories - 1)
Category(norm, num_categories) ==
    Min2(DInt(DMul(norm, DFromInt(num_categories))), num_categories - 1)

\* for norm in normalized_values: ... categories.append(category)
\* norm * num_categories of a list is a list, and int() of a list raises TypeError.
RECURSIVE BinLoop(_, _, _, _)
BinLoop(categories, k, items, num_categories) ==
    IF k > Len(items) THEN Returned(categories, <<>>)
    ELSE IF items[k].py \notin {"float", "int"}
    THEN Raised("TypeError", "int() argument must be a real number, not list", <<>>, <<>>)
    ELSE BinLoop(Append(categories, Category(items[k].x, num_categories)),
                 k + 1, items, num_categories)

bin_into_categories(normalized_values, num_categories) ==
    BinLoop(<<>>, 1, normalized_values.items, num_categories)

calculate_opening_scale(normalized_value, min_scale, max_scale, invert) ==
    IF invert
    THEN DSub(max_scale, DMul(normalized_value, DSub(max_scale, min_scale)))
    ELSE DAdd(min_scale, DMul(normalized_value, DSub(max_scale, min_scale)))

\* A panel surface.  kernel tells what the geometry kernel can do with it:
\* "cuts" (everything succeeds), "no_frame" (FrameAt fails), "no_extrusion"
\* (CreateExtrusion returns None), "no_difference" (the boolean difference
\* returns nothing).
Panel(name, area, kernel) ==
    [py |-> "NurbsSurface", name |-> name, area |-> area, kernel |-> kernel]

\* rg.Transform.Scale(rg.Plane.WorldXY, sx, sy, sz)
ScaleXf(sx, sy, sz) == [t |-> "Scale", plane |-> "WorldXY", x |-> sx, y |-> sy, z |-> sz]
\* rg.Transform.PlaneToPlane(rg.Plane.WorldXY, frame)
PlaneToPlaneXf(frame) == [t |-> "PlaneToPlane", from |-> "WorldXY", to |-> frame]

\* rg.AreaMassProperties.Compute(curve).Area: the area of the curve as it
\* lies now; a scale by (x, y) in its plane multiplies the area by x*y, the
\* rigid transforms leave it alone.
RECURSIVE XfAreaFactor(_)
XfAreaFactor(xf) ==
    IF Len(xf) = 0 THEN DFromInt(1)
    ELSE LET f == IF xf[1].t = "Scale" THEN DMul(xf[1].x, xf[1].y) ELSE DFromInt(1)
         IN  DMul(f, XfAreaFactor(Tail(xf)))
CurveArea(curve) == DMul(DFromInt(curve.area), XfAreaFactor(curve.xf))

\* opening_percent = (opening_area / panel_area * 100) if panel_area > 0 else 0.0
OpeningPercent(opening_area, panel_area) ==
    IF panel_area > 0
    THEN DMul(DDiv(opening_area, DFromInt(panel_area)), DFromInt(100))
    ELSE DZero

\* The info dict create_fenestrated_panel returns for a cut panel.
PanelInfo(panel_id, scale_factor, opening_area, panel_area) ==
    [id |-> panel_id, opening_scale |-> scale_factor,
     opening_area |-> opening_area,
     opening_percent |-> OpeningPercent(opening_area, panel_area),
     panel_area |-> DFromInt(panel_area)]

\* heap[shape_ref] is opening_shape.  Gives the returned pair (panel, info),
\* or the exception, together with the heap and the kernel calls made.
create_fenestrated_panel(panel, heap, shape_ref, scale_factor, panel_id) ==
    IF scale_factor = DZero
    THEN [status |-> "ok", panel |-> panel,
          info |-> [id |-> panel_id, opening_scale |-> DZero,
                    opening_area |-> DZero, opening_percent |-> DZero,
                    panel_area |-> DFromInt(panel.area)],
          heap |-> heap, log |-> <<"AreaMassProperties.Compute">>]
    ELSE
      LET log1 == <<"Domain", "Domain", "PointAt", "FrameAt">>
          success == panel.kernel # "no_frame"
          frame == [of |-> panel.name, at |-> "Mid"]
          transform == PlaneToPlaneXf(frame)
          scale_transform == ScaleXf(scale_factor, scale_factor, DFromInt(1))
          dup == Duplicate(heap, shape_ref)
          heap1 == Transform(dup.heap, dup.ref, scale_transform)
          heap2 == Transform(heap1, dup.ref, transform)
          opening_curve == heap2[dup.ref]
          panel_brep == [py |-> "Brep", of |-> panel.name, cut_by |-> None]
          opening_surface == IF panel.kernel = "no_extrusion" THEN None
                             ELSE [py |-> "Surface", extruded |-> opening_curve]
          fenestrated == IF panel.kernel = "no_difference" THEN <<>>
                         ELSE <<[py |-> "Brep", of |-> panel.name,
                                 cut_by |-> opening_curve]>>
          result_panel == IF opening_surface # None
                          THEN (IF Len(fenestrated) > 0 THEN fenestrated[1]
                                ELSE panel_brep)
                          ELSE panel_brep
          log2 == log1 \o <<"PlaneToPlane", "Scale", "Duplicate", "Transform",
                             "Transform", "ToBrep", "CreateExtrusion">>
                  \o (IF opening_surface # None
                      THEN <<"ToBrep", "CreateBooleanDifference">> ELSE <<>>)
          positive == DLess(DZero, scale_factor)
          log3 == log2 \o (IF positive THEN <<"AreaMassProperties.Compute">> ELSE <<>>)
                  \o <<"AreaMassProperties.Compute">>
      IN  IF ~success
          THEN [status |-> "RuntimeError", panel |-> None, info |-> None,
                heap |-> heap, log |-> log1]
          ELSE [status |-> "ok", panel |-> result_panel,
                info |-> PanelInfo(panel_id, scale_factor,
                                   IF positive THEN CurveArea(opening_curve) ELSE DZero,
                                   panel.area),
                heap |-> heap2, log |-> log3]

\* The two length checks of adaptive_fenestration with the second one left out.
LengthsMatchPanelsDataOnly(panels, ids, data_values) ==
    IF Len(panels) # Len(data_values)
    THEN "Number of panels must match number of data values"
    ELSE ""

\* if len(panels) != len(data_values): raise ...; if len(panels) != len(ids): raise ...
\* The message of the ValueError raised, "" when none is.
LengthsMatch(panels, ids, data_values) ==
    IF Len(panels) # Len(data_values)
    THEN "Number of panels must match number of data values"
    ELSE IF Len(panels) # Len(ids)
    THEN "Number of panels must match number of IDs"
    ELSE ""

\* for i, (panel, panel_id, scale) in enumerate(zip(panels, ids, scale_factors)): ...
\* c: the call's panels, ids, data_values, scale_factors, categories, normalized.
\* FenestrationStep is the rest of the loop body once create_fenestrated_panel
\* has given r for the k-th panel.
RECURSIVE FenestrationLoop(_, _, _, _, _, _)
RECURSIVE FenestrationStep(_, _, _, _, _, _)
FenestrationLoop(fenestrated_panels, fenestration_data, heap, log, k, c) ==
    IF k > Min2(Len(c.panels), Min2(Len(c.ids), Len(c.scale_factors)))
    THEN [status |-> "ok", fenestrated_panels |-> fenestrated_panels,
          fenestration_data |-> fenestration_data, heap |-> heap, log |-> log,
          at |-> <<>>]
    ELSE FenestrationStep(fenestrated_panels, fenestration_data, log, k, c,
                          create_fenestrated_panel(c.panels[k], heap, 1,
                                                   c.scale_factors[k], c.ids[k]))

FenestrationStep(fenestrated_panels, fenestration_data, log, k, c, r) ==
    IF r.status # "ok"
    THEN [status |-> r.status, fenestrated_panels |-> fenestrated_panels,
          fenestration_data |-> fenestration_data, heap |-> r.heap,
          log |-> log \o r.log, at |-> <<c.ids[k]>>]
    ELSE FenestrationLoop(Append(fenestrated_panels, r.panel),
                          Append(fenestration_data,
                                 [id |-> r.info.id,
                                  opening_scale |-> r.info.opening_scale,
                                  opening_area |-> r.info.opening_area,
                                  opening_percent |-> r.info.opening_percent,
                                  panel_area |-> r.info.panel_area,
                                  category |-> c.categories[k],
                                  data_value |-> c.data_values[k],
                                  normalized_value |-> c.normalized[k].x]),
                          r.heap, log \o r.log, k + 1, c)

\* What adaptive_fenestration gives once the loop over the panels has given r.
FenestrationResult(categories, scale_factors, r) ==
    IF r.status # "ok"
    THEN [res |-> Raised(r.status, "Failed to get frame for panel", r.at, r.log),
          shape |-> r.heap[1]]
    ELSE [res |-> Returned(<<r.fenestrated_panels, r.fenestration_data,
                             categories, scale_factors>>, r.log),
          shape |-> r.heap[1]]

\* scale_factors = [calculate_opening_scale(norm, ...) for norm in normalized]; the loop.
FenestrationScaled(panels, ids, data_values, shape, normalized, categories, scale_factors) ==
    FenestrationResult(categories, scale_factors,
        FenestrationLoop(<<>>, <<>>, <<shape>>, <<>>, 1,
                         [panels |-> panels, ids |-> ids, data_values |-> data_values,
                          scale_factors |-> scale_factors, categories |-> categories,
                          normalized |-> normalized]))

\* categories = bin_into_categories(normalized, num_categories) has given cats.
FenestrationBinned(panels, ids, data_values, shape, min_opening, max_opening, invert, normalized, cats) ==
    IF cats.status # "ok"
    THEN [res |-> Raised(cats.status, cats.msg, <<>>, <<>>), shape |-> shape]
    ELSE FenestrationScaled(panels, ids, data_values, shape, normalized, cats.value,
             [k \in 1..Len(normalized) |->
                 calculate_opening_scale(normalized[k].x, min_opening,
                                         max_opening, invert)])

\* normalized = normalize_data(data_values) has given norm.
FenestrationNormalized(panels, ids, data_values, shape, min_opening, max_opening, num_categories, invert, norm) ==
    IF norm.status # "ok"
    THEN [res |-> Raised(norm.status, norm.msg, <<>>, <<>>), shape |-> shape]
    ELSE FenestrationBinned(panels, ids, data_values, shape, min_opening, max_opening,
                            invert, norm.value.items,
                            bin_into_categories(norm.value, num_categories))

\* shape: the caller's opening_shape object.  Gives [res, shape]: what the call
\* returned or raised, and the caller's object as the call leaves it.
adaptive_fenestration(panels, ids, data_values, shape, min_opening, max_opening, num_categories, invert) ==
    IF LengthsMatch(panels, ids, data_values) # ""
    THEN [res |-> Raised("ValueError", LengthsMatch(panels, ids, data_values),
                         <<>>, <<>>),
          shape |-> shape]
    ELSE FenestrationNormalized(panels, ids, data_values, shape, min_opening,
                                max_opening, num_categories, invert,
                                normalize_data(data_values))

----------------------------------------------------------------------------
\* tools/src/tower_twister.py

\* rg.Transform.Translation(dx, dy, dz)
TranslationXf(dx, dy, dz) == [t |-> "Translation", dx |-> dx, dy |-> dy, dz |-> dz]
\* rg.Transform.Rotation(angle_rad, rg.Vector3d.ZAxis, center), with
\* angle_rad = degrees * (3.14159265359 / 180.0) kept as its factor degrees.
RotationXf(degrees, center) ==
    [t |-> "Rotation", angle_rad |-> [times |-> degrees, unit |-> "3.14159265359/180.0"],
     axis |-> "ZAxis", center |-> center]

\* The transform of floor i with the floor's own increment in place of the
\* cumulative rotation.
FloorTransformPerFloorRotation(i, floor_height, rotation_per_floor, axis_point) ==
    LET z_offset == i * floor_height
        rotation_degrees == rotation_per_floor
    IN  [t |-> "Composite",
         factors |-> <<TranslationXf(0, 0, z_offset)>> \o
                     (IF rotation_degrees # 0
                      THEN <<RotationXf(rotation_degrees,
                                        <<axis_point[1], axis_point[2], z_offset>>)>>
                      ELSE <<>>)]

\* transform = Identity; transform *= Translation(0, 0, z_offset);
\* if rotation_degrees != 0: transform *= Rotation(angle_rad, ZAxis, axis_elevated)
FloorTransform(i, floor_height, rotation_per_floor, axis_point) ==
    LET z_offset == i * floor_height
        rotation_degrees == i * rotation_per_floor
    IN  [t |-> "Composite",
         factors |-> <<TranslationXf(0, 0, z_offset)>> \o
                     (IF rotation_degrees # 0
                      THEN <<RotationXf(rotation_degrees,
                                        <<axis_point[1], axis_point[2], z_offset>>)>>
                      ELSE <<>>)]

\* The kernel calls that build FloorTransform(i, ...).
FloorTransformLog(i, rotation_per_floor) ==
    <<"Translation">> \o (IF i * rotation_per_floor # 0 THEN <<"Rotation">> ELSE <<>>)

\* for i in range(floor_count): ... floor_curves.append(new_curve)
\* floor_curves holds references into the heap; heap[1] is base_curve.
RECURSIVE FloorLoop(_, _, _, _, _)
FloorLoop(floor_curves, heap, log, i, c) ==
    IF i >= c.floor_count
    THEN [floor_curves |-> floor_curves, heap |-> heap, log |-> log]
    ELSE
      LET transform == FloorTransform(i, c.floor_height, c.rotation_per_floor, c.axis_point)
          new_curve == DuplicateCurve(heap, 1)
          heap1 == Transform(new_curve.heap, new_curve.ref, transform)
      IN  FloorLoop(Append(floor_curves, new_curve.ref), heap1,
                    log \o FloorTransformLog(i, c.rotation_per_floor)
                        \o <<"DuplicateCurve", "Transform">>,
                    i + 1, c)

\* for i in range(floor_count - 1): loft, then one surface per face of the
\* first Brep.  lofts[i + 1] is the number of faces of the Brep the kernel
\* lofts between floors i and i + 1, 0 when the loft gives nothing.
RECURSIVE LoftLoop(_, _, _, _, _, _)
LoftLoop(surfaces, log, i, floor_curves, heap, c) ==
    IF i >= c.floor_count - 1
    THEN [status |-> "ok", surfaces |-> surfaces, log |-> log, at |-> <<>>]
    ELSE IF c.lofts[i + 1] = 0
    THEN [status |-> "RuntimeError", surfaces |-> surfaces,
          log |-> Append(log, "CreateFromLoft"), at |-> <<i + 1, i + 2>>]
    ELSE LoftLoop(surfaces \o [f \in 1..c.lofts[i + 1] |->
                                 [py |-> "Surface", face |-> f,
                                  sections |-> <<heap[floor_curves[i + 1]],
                                                 heap[floor_curves[i + 2]]>>,
                                  floors |-> <<i, i + 1>>]],
                  log \o <<"CreateFromLoft">>
                      \o [f \in 1..c.lofts[i + 1] |-> "UnderlyingSurface"],
                  i + 1, floor_curves, heap, c)

\* base: the caller's base_curve object, or None.  Gives [res, base]: what the
\* call returned or raised, and the caller's object as the call leaves it.
twist_tower(base, floor_count, floor_height, rotation_per_floor, axis_point, lofts) ==
    IF base = None
    THEN [res |-> Raised("ValueError", "No base curve provided.", <<>>, <<>>),
          base |-> base]
    ELSE IF ~base.closed
    THEN [res |-> Raised("ValueError", "Base curve must be closed.", <<>>, <<>>),
          base |-> base]
    ELSE IF floor_count < 2
    THEN [res |-> Raised("ValueError", "Floor count must be at least 2.", <<>>, <<>>),
          base |-> base]
    ELSE IF floor_height <= 0
    THEN [res |-> Raised("ValueError", "Floor height must be > 0.", <<>>, <<>>),
          base |-> base]
    ELSE
      LET axis == IF axis_point = None THEN base.center ELSE axis_point
          log0 == IF axis_point = None THEN <<"GetBoundingBox">> ELSE <<>>
          c == [floor_count |-> floor_count, floor_height |-> floor_height,
                rotation_per_floor |-> rotation_per_floor, axis_point |-> axis,
                lofts |-> lofts]
          fl == FloorLoop(<<>>, <<base>>, log0, 0, c)
          lo == LoftLoop(<<>>, fl.log, 0, fl.floor_curves, fl.heap, c)
      IN  IF lo.status # "ok"
          THEN [res |-> Raised("RuntimeError", "Loft failed between floors", lo.at, lo.log),
                base |-> fl.heap[1]]
          ELSE [res |-> Returned(<<lo.surfaces,
                                   [k \in 1..Len(fl.floor_curves) |->
                                       fl.heap[fl.floor_curves[k]]]>>, lo.log),
                base |-> fl.heap[1]]

----------------------------------------------------------------------------
\* shared/loader.py

\* Python's built-in exception classes (those a call here can end with).
ExceptionClasses ==
    {"BaseException", "Exception", "ArithmeticError", "LookupError",
     "ValueError", "TypeError", "RuntimeError", "AttributeError",
     "ZeroDivisionError", "KeyError",
     "KeyboardInterrupt", "SystemExit", "GeneratorExit"}
\* cls.__base__; object is the base of BaseException and no exception class.
BaseOf(cls) ==
    CASE cls = "BaseException" -> "object"
      [] cls \in {"Exception", "KeyboardInterrupt", "SystemExit", "GeneratorExit"}
           -> "BaseException"
      [] cls = "ZeroDivisionError" -> "ArithmeticError"
      [] cls = "KeyError" -> "LookupError"
      [] cls \in {"ArithmeticError", "LookupError", "ValueError", "TypeError",
                  "RuntimeError", "AttributeError"} -> "Exception"

\* issubclass(cls, of)
RECURSIVE IsSubclass(_, _)
IsSubclass(cls, of) ==
    IF cls = of THEN TRUE
    ELSE IF cls = "object" THEN FALSE
    ELSE IsSubclass(BaseOf(cls), of)

\* except Exception: every exception whose class derives from Exception.
Catches(exc) == IsSubclass(exc, "Exception")

\* The short message alone, without the trace.
format_short(fn) == [trace |-> FALSE, exc |-> fn.status, message |-> fn.msg]

\* traceback.format_exc(): the full trace, whose last line is the message.
format_exc(fn) == [trace |-> TRUE, exc |-> fn.status, message |-> fn.msg]

\* fn: what calling fn() ends with.  run_tool has no debug parameter.
run_tool(fn) ==
    IF fn.status = "ok" THEN Returned(<<fn.value, <<>>>>, fn.log)
    ELSE IF Catches(fn.status) THEN Returned(<<None, <<format_exc(fn)>>>>, fn.log)
    ELSE fn

----------------------------------------------------------------------------
\* The inputs the calls are made with.

Prefixes == {"P", "F-1"}

S1 == Surface("S1", <<0, 1>>, <<2, 6>>)
S2 == Surface("S2", <<-1, 2>>, <<0, 3>>)
BrepOf(n) == Brep([k \in 1..n |-> BrepFace(IF k % 2 = 1 THEN S2 ELSE S1)])
SurfaceInputs ==
    {None, S1, BrepFace(S2), [py |-> "Curve"]} \cup {BrepOf(n) : n \in 0..MaxFaces}

\* The kernel fails on no cell or on one cell of the grid.
FailSets(u_count, v_count) ==
    {{}} \cup {{<<i, j>>} : i \in 0..(u_count - 1), j \in 0..(v_count - 1)}

SeqsUpTo(S, n) == UNION {[1..k -> S] : k \in 0..n}

DataSet == {0, 5, 10}

\* Normalized values: the floats p / q of [0, 1] with q up to MaxDen, and one
\* value on either side of [0, 1].
NormSet ==
    {D(p[1], p[2]) : p \in {q \in (0..MaxDen) \X (1..MaxDen) : q[1] <= q[2]}}
    \cup {D(-1, 2), D(3, 2)}
\* 0.0, 0.1, 0.25, 0.4, 0.5, 1.0
ScaleSet == {D(0, 1), D(1, 10), D(1, 4), D(2, 5), D(1, 2), D(1, 1)}

PanelSet == {Panel("A", 2, "cuts"), Panel("B", 0, "no_frame"),
             Panel("C", 3, "no_extrusion"), Panel("D", 1, "no_difference")}
\* The panels of a call: the kernel succeeds on every panel, or on every panel
\* but one.
PanelSeqs ==
    {s \in SeqsUpTo(PanelSet, MaxPanels) :
        Cardinality({k \in 1..Len(s) : s[k].kernel # "cuts"}) <= 1}
AllIds == [k \in 1..(MaxPanels + 1) |-> FormatId("P", k, 1)]
\* <<min_opening, max_opening, num_categories, invert>>: the defaults of
\* adaptive_fenestration (with MaxCategories categories), a single opening
\* size, and openings from 0.1 to 0.4.
FenestrationSettings ==
    {<<D(0, 1), D(1, 2), MaxCategories, TRUE>>,
     <<D(1, 4), D(1, 4), 2, FALSE>>,
     <<D(1, 10), D(2, 5), 2, TRUE>>}

FloorHeights == {0, 3}
Rotations == {-30, 0, 45}
AxisPoints == {None, <<1, 2, 0>>}
LoftOutcomes(floor_count) ==
    IF floor_count < 2 THEN {<<>>} ELSE [1..(floor_count - 1) -> 0..MaxFaces]

\* What calling fn() can end with: a tool's result or exception (which = 1, 2),
\* or an exception of another class (which = 3).
OtherExceptions == ExceptionClasses \ {"BaseException", "ValueError"}
FnOutcome(which, u_count, data_values, exc) ==
    IF which = 1 THEN generate_panel_ids(u_count, 1, "P")
    ELSE IF which = 2 THEN normalize_data(data_values)
    ELSE Raised(exc, "stopped", <<>>, <<>>)

\* A curve that is not closed.
OpenCurve == Curve("open", FALSE, <<0, 0, 0>>, 0)

----------------------------------------------------------------------------
\* The state machine: one action per call.

Init ==
    /\ op = "idle"
    /\ args = <<>>
    /\ result = Returned(None, <<>>)
    /\ base_curve = Curve("base", TRUE, <<4, 6, 0>>, 9)
    /\ opening_shape = Curve("opening", TRUE, <<0, 0, 0>>, 4)

\* The call is over and its outputs are taken; the host may call again.
Collect ==
    /\ op # "idle"
    /\ op' = "idle"
    /\ args' = <<>>
    /\ result' = Returned(None, <<>>)
    /\ UNCHANGED <<base_curve, opening_shape>>

CallGeneratePanelIds ==
    /\ op = "idle"
    /\ \E u_count \in -1..MaxCount, v_count \in -1..MaxCount, prefix \in Prefixes :
        /\ op' = "generate_panel_ids"
        /\ args' = [u_count |-> u_count, v_count |-> v_count, prefix |-> prefix]
        /\ result' = generate_panel_ids(u_count, v_count, prefix)
        /\ UNCHANGED <<base_curve, opening_shape>>

CallPanelizeSurface ==
    /\ op = "idle"
    /\ \E surface_input \in SurfaceInputs, u_count \in 0..MaxGrid, v_count \in 0..MaxGrid,
       prefix \in Prefixes :
      \E fails \in FailSets(u_count, v_count) :
        /\ op' = "panelize_surface"
        /\ args' = [surface_input |-> surface_input, u_count |-> u_count,
                    v_count |-> v_count, prefix |-> prefix, fails |-> fails]
        /\ result' = panelize_surface(surface_input, u_count, v_count, prefix, fails)
        /\ UNCHANGED <<base_curve, opening_shape>>

CallNormalizeData ==
    /\ op = "idle"
    /\ \E data_values \in SeqsUpTo(DataSet, MaxPanels + 1) :
        /\ op' = "normalize_data"
        /\ args' = [data_values |-> data_values]
        /\ result' = normalize_data(data_values)
        /\ UNCHANGED <<base_curve, opening_shape>>

CallBinIntoCategories ==
    /\ op = "idle"
    /\ \E values \in SeqsUpTo(NormSet, 2), num_categories \in 1..MaxCategories :
        /\ op' = "bin_into_categories"
        /\ args' = [normalized_values |-> values, num_categories |-> num_categories]
        /\ result' = bin_into_categories(
                         PyList([k \in 1..Len(values) |-> PyFloat(values[k])]),
                         num_categories)
        /\ UNCHANGED <<base_curve, opening_shape>>

CallCalculateOpeningScale ==
    /\ op = "idle"
    /\ \E normalized_value \in NormSet, min_scale \in ScaleSet, max_scale \in ScaleSet,
       invert \in BOOLEAN :
        /\ op' = "calculate_opening_scale"
        /\ args' = [normalized_value |-> normalized_value, min_scale |-> min_scale,
                    max_scale |-> max_scale, invert |-> invert]
        /\ result' = Returned(calculate_opening_scale(normalized_value, min_scale,
                                                      max_scale, invert), <<>>)
        /\ UNCHANGED <<base_curve, opening_shape>>

CallAdaptiveFenestration ==
    /\ op = "idle"
    /\ \E panels \in PanelSeqs, n_ids \in 0..MaxPanels,
       data_values \in SeqsUpTo(DataSet, MaxPanels), setting \in FenestrationSettings :
      \E ids \in {SubSeq(AllIds, 1, n_ids)} :
      \E r \in {adaptive_fenestration(panels, ids, data_values, opening_shape,
                                      setting[1], setting[2], setting[3], setting[4])} :
        /\ op' = "adaptive_fenestration"
        /\ args' = [panels |-> panels, ids |-> ids, data_values |-> data_values,
                    opening_shape |-> opening_shape, min_opening |-> setting[1],
                    max_opening |-> setting[2], num_categories |-> setting[3],
                    invert |-> setting[4]]
        /\ result' = r.res
        /\ opening_shape' = r.shape
        /\ UNCHANGED base_curve

CallTwistTower ==
    /\ op = "idle"
    /\ \E base \in {None, base_curve, OpenCurve}, floor_count \in 0..MaxFloors,
       floor_height \in FloorHeights, rotation_per_floor \in Rotations,
       axis_point \in AxisPoints :
      \E lofts \in LoftOutcomes(floor_count) :
        LET r == twist_tower(base, floor_count, floor_height, rotation_per_floor,
                             axis_point, lofts)
        IN
          /\ op' = "twist_tower"
          /\ args' = [base_curve |-> base, floor_count |-> floor_count,
                      floor_height |-> floor_height,
                      rotation_per_floor |-> rotation_per_floor,
                      axis_point |-> axis_point, lofts |-> lofts]
          /\ result' = r.res
          /\ base_curve' = (IF base = base_curve THEN r.base ELSE base_curve)
          /\ UNCHANGED opening_shape

\* debug is the host's setting; run_tool has no parameter to receive it.
CallRunTool ==
    /\ op = "idle"
    /\ \E which \in 1..3, u_count \in 0..2, data_values \in SeqsUpTo(DataSet, 2),
       exc \in OtherExceptions, debug \in BOOLEAN :
      \E fn \in {FnOutcome(which, u_count, data_values, exc)} :
        /\ op' = "run_tool"
        /\ args' = [fn |-> fn, debug |-> debug]
        /\ result' = run_tool(fn)
        /\ UNCHANGED <<base_curve, opening_shape>>

Next ==
    \/ CallGeneratePanelIds
    \/ CallPanelizeSurface
    \/ CallNormalizeData
    \/ CallBinIntoCategories
    \/ CallCalculateOpeningScale
    \/ CallAdaptiveFenestration
    \/ CallTwistTower
    \/ CallRunTool
    \/ Collect

Spec == Init /\ [][Next]_vars

----------------------------------------------------------------------------
\* Properties.

\* C1: for u_count > 0 and v_count > 0, generate_panel_ids returns exactly
\* u_count*v_count ids, pairwise distinct, the id at 0-based position k being
\* that of u = (k mod u_count) + 1, v = (k div u_count) + 1.
C1_PanelIdsRowMajor ==
    (op = "generate_panel_ids" /\ args.u_count > 0 /\ args.v_count > 0) =>
        /\ result.status = "ok"
        /\ Len(result.value) = args.u_count * args.v_count
        /\ \A k1, k2 \in 1..Len(result.value) :
              k1 # k2 => result.value[k1] # result.value[k2]
        /\ \A k \in 0..(args.u_count * args.v_count - 1) :
              result.value[k + 1] =
                  FormatId(args.prefix, (k % args.u_count) + 1, (k \div args.u_count) + 1)

C1_Witness ==
    /\ op = "generate_panel_ids"
    /\ args.u_count = 11 /\ args.v_count = 3 /\ args.prefix = "P"
    /\ result.status = "ok"
    /\ Len(result.value) = 33
    /\ result.value[11] = "P-11-01"
    /\ result.value[12] = "P-01-02"

\* The parametric surface panelize_surface works on.
SurfaceOf(surface_input) ==
    IF surface_input.py = "Surface" THEN surface_input
    ELSE IF surface_input.py = "BrepFace" THEN surface_input.underlying
    ELSE surface_input.faces[1].underlying

ValidSurfaceInput(surface_input) ==
    /\ surface_input # None
    /\ surface_input.py \in {"Surface", "BrepFace", "Brep"}
    /\ surface_input.py = "Brep" => Len(surface_input.faces) > 0

\* The i-th of count + 1 evenly spaced parameters of dom, both ends included.
EvenParam(dom, count, i) == Rat(dom[1] * count + i * (dom[2] - dom[1]), count)

\* C2: on a valid surface input with counts > 0 and every patch built,
\* panelize_surface returns u_count*v_count panels and the ids of
\* generate_panel_ids, and the panel at position k is the patch of the cell the
\* id at k names: u = (k mod u_count) + 1, v = (k div u_count) + 1, corners at
\* parameter indices u - 1, u and v - 1, v.
C2_PanelsMatchIds ==
    (op = "panelize_surface" /\ ValidSurfaceInput(args.surface_input)
       /\ args.u_count > 0 /\ args.v_count > 0 /\ args.fails = {}) =>
        LET srf == SurfaceOf(args.surface_input)
            panels == result.value[1]
            ids == result.value[2]
            U(i) == EvenParam(srf.u_dom, args.u_count, i)
            V(j) == EvenParam(srf.v_dom, args.v_count, j)
        IN  /\ result.status = "ok"
            /\ Len(panels) = args.u_count * args.v_count
            /\ ids = generate_panel_ids(args.u_count, args.v_count, args.prefix).value
            /\ \A k \in 0..(args.u_count * args.v_count - 1) :
                  LET u == (k % args.u_count) + 1
                      v == (k \div args.u_count) + 1
                  IN  /\ ids[k + 1] = FormatId(args.prefix, u, v)
                      /\ panels[k + 1].corners =
                            << [on |-> srf.name, u |-> U(u - 1), v |-> V(v - 1)],
                               [on |-> srf.name, u |-> U(u),     v |-> V(v - 1)],
                               [on |-> srf.name, u |-> U(u),     v |-> V(v)],
                               [on |-> srf.name, u |-> U(u - 1), v |-> V(v)] >>

C2_Witness ==
    /\ op = "panelize_surface"
    /\ args.surface_input = BrepOf(2)
    /\ args.u_count = 2 /\ args.v_count = 3
    /\ result.status = "ok"
    /\ Len(result.value[1]) = 6
    /\ result.value[2][2] = FormatId(args.prefix, 2, 1)
    /\ result.value[1][2].corners[1] = [on |-> "S2", u |-> <<1, 2>>, v |-> <<0, 1>>]

\* 0.0 <= x <= 1.0
InUnitInterval(x) == DLeq(DZero, x) /\ DLeq(x, DFromInt(1))

AllEqual(s) == \A k1, k2 \in 1..Len(s) : s[k1] = s[k2]

\* C3: for a non-empty input, normalize_data returns one sequence of normalized
\* values, as long as the input and index-aligned with it; when all input
\* values are equal, every element is 0.5.
C3_NormalizeReturnsOneSequence ==
    (op = "normalize_data" /\ Len(args.data_values) > 0) =>
        /\ result.status = "ok"
        /\ result.value.py = "list"
        /\ Len(result.value.items) = Len(args.data_values)
        /\ \A k \in 1..Len(result.value.items) :
              /\ result.value.items[k].py = "float"
              /\ InUnitInterval(result.value.items[k].x)
        /\ AllEqual(args.data_values) =>
              \A k \in 1..Len(result.value.items) :
                  result.value.items[k] = PyFloat(D(1, 2))

NoConstructionFails(panels) == \A k \in 1..Len(panels) : panels[k].kernel # "no_frame"

\* C4: when panels, ids and data_values have the same length n > 0 and no
\* geometry construction fails, adaptive_fenestration returns four sequences of
\* length n, and the record at i carries ids[i], data_values[i], its normalized
\* value in [0, 1], categories[i] in [0, num_categories) and scale_factors[i].
C4_FenestrationAligned ==
    (op = "adaptive_fenestration"
       /\ Len(args.panels) > 0
       /\ Len(args.ids) = Len(args.panels)
       /\ Len(args.data_values) = Len(args.panels)
       /\ NoConstructionFails(args.panels)) =>
        /\ result.status = "ok"
        /\ \A j \in 1..4 : Len(result.value[j]) = Len(args.panels)
        /\ \A i \in 1..Len(args.panels) :
              LET record == result.value[2][i]
              IN  /\ record.id = args.ids[i]
                  /\ record.data_value = args.data_values[i]
                  /\ record.category = result.value[3][i]
                  /\ record.opening_scale = result.value[4][i]
                  /\ InUnitInterval(record.normalized_value)
                  /\ record.category \in 0..(args.num_categories - 1)

\* C5: every input-validation failure is raised before any geometry-kernel
\* call is made and nothing is returned: panelize_surface with a null input, a
\* count <= 0 or a solid with zero faces; adaptive_fenestration with panels,
\* ids and data_values of differing lengths; twist_tower with a null or
\* non-closed base_curve, floor_count < 2 or floor_height <= 0.
InvalidPanelizeInput ==
    \/ args.surface_input = None
    \/ args.u_count <= 0
    \/ args.v_count <= 0
    \/ (args.surface_input.py = "Brep" /\ Len(args.surface_input.faces) = 0)

InvalidFenestrationInput ==
    \/ Len(args.panels) # Len(args.ids)
    \/ Len(args.panels) # Len(args.data_values)

InvalidTowerInput ==
    \/ args.base_curve = None
    \/ ~args.base_curve.closed
    \/ args.floor_count < 2
    \/ args.floor_height <= 0

RejectedUntouched ==
    /\ result.status = "ValueError"
    /\ result.log = <<>>
    /\ result.value = None

C5_ValidationBeforeGeometry ==
    /\ (op = "panelize_surface" /\ InvalidPanelizeInput) => RejectedUntouched
    /\ (op = "adaptive_fenestration" /\ InvalidFenestrationInput) => RejectedUntouched
    /\ (op = "twist_tower" /\ InvalidTowerInput) => RejectedUntouched

C5_Witness ==
    /\ op = "adaptive_fenestration"
    /\ Len(args.panels) = 2 /\ Len(args.data_values) = 2 /\ Len(args.ids) = 1
    /\ NoConstructionFails(args.panels)
    /\ ~AllEqual(args.data_values)
    /\ result.status = "ValueError"
    /\ result.msg = "Number of panels must match number of IDs"

\* What the transforms applied to a curve add up to: the elevation gained,
\* the degrees turned about the Z axis, and the centres turned about.
RECURSIVE SumDz(_)
SumDz(fs) == IF Len(fs) = 0 THEN 0
             ELSE (IF fs[1].t = "Translation" THEN fs[1].dz ELSE 0) + SumDz(Tail(fs))
RECURSIVE SumDegrees(_)
SumDegrees(fs) == IF Len(fs) = 0 THEN 0
                  ELSE (IF fs[1].t = "Rotation" THEN fs[1].angle_rad.times ELSE 0)
                       + SumDegrees(Tail(fs))
RotationCentres(fs) == {<<fs[k].center[1], fs[k].center[2]>> :
                          k \in {j \in 1..Len(fs) : fs[j].t = "Rotation"}}
Horizontal(fs) == \A k \in 1..Len(fs) :
                     fs[k].t = "Translation" => (fs[k].dx = 0 /\ fs[k].dy = 0)

ValidTowerCall ==
    /\ ~InvalidTowerInput
    /\ \A k \in 1..Len(args.lofts) : args.lofts[k] > 0

\* C6: a valid twist_tower call whose lofts all succeed returns floor_count
\* floor curves, the curve at index i being a copy of the base curve raised to
\* i*floor_height and turned by i*rotation_per_floor degrees about the vertical
\* axis through axis_point (not turned at all when that angle is 0), and at
\* least floor_count - 1 surfaces, those of each loft before those of the next.
C6_TowerFloorsAndSurfaces ==
    (op = "twist_tower" /\ ValidTowerCall) =>
        LET surfaces == result.value[1]
            floor_curves == result.value[2]
            axis == IF args.axis_point = None THEN args.base_curve.center
                    ELSE args.axis_point
        IN  /\ result.status = "ok"
            /\ Len(floor_curves) = args.floor_count
            /\ \A i \in 0..(args.floor_count - 1) :
                  LET curve == floor_curves[i + 1]
                      fs == curve.xf[1].factors
                  IN  /\ [curve EXCEPT !.xf = <<>>] = args.base_curve
                      /\ Len(curve.xf) = 1
                      /\ Horizontal(fs)
                      /\ SumDz(fs) = i * args.floor_height
                      /\ SumDegrees(fs) = i * args.rotation_per_floor
                      /\ RotationCentres(fs) \subseteq {<<axis[1], axis[2]>>}
                      /\ (i * args.rotation_per_floor = 0) => RotationCentres(fs) = {}
            /\ Len(surfaces) >= args.floor_count - 1
            /\ \A i \in 0..(args.floor_count - 2) :
                  \E k \in 1..Len(surfaces) :
                      /\ surfaces[k].floors = <<i, i + 1>>
                      /\ surfaces[k].sections = <<floor_curves[i + 1], floor_curves[i + 2]>>
            /\ \A k1, k2 \in 1..Len(surfaces) :
                  k1 < k2 => surfaces[k1].floors[1] <= surfaces[k2].floors[1]

C6_Witness ==
    /\ op = "twist_tower"
    /\ args.floor_count = 4 /\ args.floor_height = 3 /\ args.rotation_per_floor = 45
    /\ args.axis_point = None
    /\ args.lofts = <<1, 2, 1>>
    /\ result.status = "ok"
    /\ Len(result.value[2]) = 4
    /\ Len(result.value[1]) = 4
    /\ SumDegrees(result.value[2][4].xf[1].factors) = 135
    /\ SumDz(result.value[2][4].xf[1].factors) = 9

\* C7: caller-supplied geometry is never transformed: after a twist_tower call,
\* successful or failing, the base curve is as it was passed in, after an
\* adaptive_fenestration call the opening template is as it was passed in, and
\* so neither ever carries a transform.
C7_CallerGeometryUntouched ==
    /\ (op = "twist_tower" /\ args.base_curve # None /\ args.base_curve.name = "base")
          => base_curve = args.base_curve
    /\ op = "adaptive_fenestration" => opening_shape = args.opening_shape
    /\ base_curve.xf = <<>>
    /\ opening_shape.xf = <<>>

C7_Witness ==
    /\ op = "twist_tower"
    /\ result.status = "ok"
    /\ args.base_curve = base_curve
    /\ args.rotation_per_floor # 0
    /\ Len(result.value[2][2].xf) = 1
    /\ base_curve.xf = <<>>

\* C8, as claimed: run never propagates a failure of fn; on success it returns
\* (result of fn, no diagnostics); on any failure it returns (null, diagnostics)
\* where diagnostics holds a short message, and the full trace only when debug
\* is set.
C8_RunNeverPropagatesTraceOnlyOnDebug ==
    op = "run_tool" =>
        /\ result.status = "ok"
        /\ args.fn.status = "ok" => result.value = <<args.fn.value, <<>>>>
        /\ args.fn.status # "ok" =>
              /\ result.value[1] = None
              /\ Len(result.value[2]) > 0
              /\ \A k \in 1..Len(result.value[2]) :
                    result.value[2][k].message = args.fn.msg
              /\ (\E k \in 1..Len(result.value[2]) : result.value[2][k].trace)
                    <=> args.debug

\* C8, amended: run_tool never propagates a failure of fn of class Exception;
\* on success it returns (result of fn, no diagnostics); on such a failure it
\* returns (None, diagnostics) where diagnostics is one entry, the full trace
\* ending in the message, whatever the debug setting.  Exceptions outside
\* Exception (KeyboardInterrupt, SystemExit) reach the caller.
C8_RunToolCatchesExceptionsFullTrace ==
    op = "run_tool" =>
        /\ args.fn.status = "ok" =>
              (result.status = "ok" /\ result.value = <<args.fn.value, <<>>>>)
        /\ (args.fn.status # "ok" /\ IsSubclass(args.fn.status, "Exception")) =>
              /\ result.status = "ok"
              /\ result.value[1] = None
              /\ Len(result.value[2]) = 1
              /\ result.value[2][1].trace
              /\ result.value[2][1].message = args.fn.msg
              /\ result.value[2][1].exc = args.fn.status
        /\ (args.fn.status # "ok" /\ ~IsSubclass(args.fn.status, "Exception")) =>
              result.status = args.fn.status

C8_Witness ==
    /\ op = "run_tool"
    /\ ~args.debug
    /\ args.fn.status = "ValueError"
    /\ result.status = "ok"
    /\ result.value[1] = None
    /\ result.value[2][1].trace

\* The integer m of 0..bound with m <= x < m + 1.
Floor(x, bound) ==
    CHOOSE m \in 0..bound : DLeq(DFromInt(m), x) /\ DLess(x, DFromInt(m + 1))

\* C9: for num_categories >= 1, bin_into_categories gives one category per
\* input value, in input order, and to every value norm of [0, 1] the category
\* min(floor(norm * num_categories), num_categories - 1), the product being
\* the float product, which lies in [0, num_categories - 1] and is
\* num_categories - 1 for norm = 1.
C9_BinClampsIntoLastCategory ==
    (op = "bin_into_categories" /\ args.num_categories >= 1) =>
        /\ result.status = "ok"
        /\ Len(result.value) = Len(args.normalized_values)
        /\ \A k \in 1..Len(args.normalized_values) :
              LET norm == args.normalized_values[k]
                  n == args.num_categories
              IN  InUnitInterval(norm) =>
                    /\ result.value[k] = Min2(Floor(DMul(norm, DFromInt(n)), n), n - 1)
                    /\ result.value[k] \in 0..(n - 1)
                    /\ norm = DFromInt(1) => result.value[k] = n - 1

C9_Witness ==
    /\ op = "bin_into_categories"
    /\ args.num_categories = 11
    /\ args.normalized_values = <<DFromInt(1), D(1, 2)>>
    /\ result.value = <<10, 5>>

\* C10: for a normalized value n of [0, 1] and min_scale <= max_scale,
\* calculate_opening_scale returns a value of [min_scale, max_scale]; with
\* invert it is max_scale at 0, min_scale at 1 and non-increasing in n, without
\* invert it is min_scale at 0, max_scale at 1 and non-decreasing in n; and
\* scale(n, invert) = scale(1 - n, not invert).
C10_OpeningScaleInterpolates ==
    (op = "calculate_opening_scale" /\ InUnitInterval(args.normalized_value)
       /\ DLeq(args.min_scale, args.max_scale)) =>
        LET n == args.normalized_value
            lo == args.min_scale
            hi == args.max_scale
            r == result.value
            Later == {m \in NormSet : InUnitInterval(m) /\ DLeq(n, m)}
        IN  /\ DLeq(lo, r) /\ DLeq(r, hi)
            /\ args.invert =>
                  /\ n = DZero => r = hi
                  /\ n = DFromInt(1) => r = lo
                  /\ \A m \in Later : DLeq(calculate_opening_scale(m, lo, hi, TRUE), r)
            /\ ~args.invert =>
                  /\ n = DZero => r = lo
                  /\ n = DFromInt(1) => r = hi
                  /\ \A m \in Later : DLeq(r, calculate_opening_scale(m, lo, hi, FALSE))
            /\ r = calculate_opening_scale(DSub(DFromInt(1), n), lo, hi, ~args.invert)

====
